---- MODULE Spec2Model ----
(***************************************************************************)
(* Table generators for the number-theoretic transform:                    *)
(*   tools/psi_power_tables.c  (powers of psi, of psi^-1, scaled by n^-1)  *)
(*   tools/shoup_tables.c      (level-structured table of powers of phi)   *)
(* Both programs share power(), inverse() and the argument checks of main. *)
(***************************************************************************)
EXTENDS Integers, Sequences, FiniteSets

\* ------------------------------------------------------------------ bounds
\* largest modulus of the exhaustive part of the inputs
MaxQ == 17
\* largest size of the exhaustive part of the inputs
MaxN == 8
\* largest exponent tried on power()
MaxK == 6
\* largest log2(n) tried on build_shoup_table()
MaxLog == 3

\* ------------------------------------------------ program constants (main)
ModulusLimit == 65535
SizeLimit == 100000

\* --------------------------------------------------------- machine integers
Int32Max == 2147483647
Half == 2^16
Byte == 2^8

Abs(x) == IF x < 0 THEN -x ELSE x

\* the exact product x * y lies in [-2^31, 2^31): decided without forming it
FitsInt32(x, y) ==
  \/ x = 0
  \/ y = 0
  \/ Abs(y) <= Int32Max \div Abs(x)
  \/ /\ (x < 0) # (y < 0)
     /\ Int32Max % Abs(x) = Abs(x) - 1
     /\ Abs(y) = (Int32Max \div Abs(x)) + 1

\* C's % on int32_t operands truncates toward zero (divisor positive here)
CRem(x, m) == IF x >= 0 THEN x % m ELSE -((-x) % m)

\* product of two 16-bit values as 16-bit limbs <<high, low>>
Mul16(x, y) ==
  LET s == x * (y % Byte)
      t == x * (y \div Byte)
      l == (t % Byte) * Byte + (s % Half)
  IN  << (t \div Byte) + (s \div Half) + (l \div Half), l % Half >>

\* uint32_t product x * y, i.e. the exact product modulo 2^32, as 16-bit limbs
UMul32(x, y) ==
  LET x0 == x % Half
      x1 == (x \div Half) % Half
      y0 == y % Half
      y1 == (y \div Half) % Half
      p == Mul16(x0, y0)
      cross == (Mul16(x1, y0)[2] + Mul16(x0, y1)[2]) % Half
  IN  << (p[1] + cross) % Half, p[2] >>

\* (h * 2^16) mod m for 0 <= h < 2^16, a byte at a time
ShiftMod(h, m) == ((((h % m) * Byte) % m) * Byte) % m

\* the C expression (x * y) % m on uint32_t operands
UMulMod(x, y, m) ==
  LET w == UMul32(x, y)
  IN  (ShiftMod(w[1], m) + (w[2] % m)) % m

\* ------------------------------------------------------------------ power()
RECURSIVE powerLoop(_, _, _, _)
powerLoop(y, x, k, m) ==
  IF k = 0 THEN y
  ELSE powerLoop(IF k % 2 # 0 THEN UMulMod(y, x, m) ELSE y,
                 UMulMod(x, x, m), k \div 2, m)

\* y = 1 replaced by y = x
powerFromX(x, k, m) == powerLoop(x, x, k, m)
power(x, k, m) == powerLoop(1, x, k, m)

\* reference values: exact modular arithmetic on reduced operands
\* (x * y) mod m for 0 <= x, y < m < 2^16, no product above 2^25
ModMul(x, y, m) == ((((x * (y \div Byte)) % m) * Byte) + x * (y % Byte)) % m

RECURSIVE ModExp(_, _, _)
\* x^k mod m by k successive multiplications
ModExp(x, k, m) == IF k = 0 THEN 1 % m ELSE ModMul(ModExp(x, k - 1, m), x % m, m)

RECURSIVE Gcd(_, _)
Gcd(x, y) == IF y = 0 THEN x ELSE Gcd(y, x % y)

\* ------------------------------------------------------------------- state
VARIABLES
  tool,      \* which program runs: "psi_power_tables" or "shoup_tables"
  ndebug,    \* the build: TRUE when assert() is compiled out (-DNDEBUG)
  argc,      \* main's argc
  args,      \* <<atol(argv[1]), atol(argv[2]), atol(argv[3])>>
  pc,        \* main's position
  q, n, psi, phi, i,   \* main's locals
  inv_n, inv_psi,      \* main's locals written through inverse()'s pointer:
                       \* <<>> while uninitialized, <<v>> once stored
  checks,    \* the checks main has evaluated so far, in order
  out,       \* standard output: the tables printed so far
  err,       \* standard error: the diagnostics printed so far
  inv,       \* the frame of the running inverse() call
  bld,       \* the frame of the running build_shoup_table() call
  pw         \* the frame of a power() call made on its own

vars == << tool, ndebug, argc, args, pc, q, n, psi, phi, i, inv_n, inv_psi,
           checks, out, err, inv, bld, pw >>

inputVars == << tool, ndebug, argc, args >>
localVars == << q, n, psi, phi, i >>
ioVars == << checks, out, err >>

None == << >>
Tools == {"psi_power_tables", "shoup_tables"}

\* frames of calls that are not running
NoInverse == [pc |-> "idle", target |-> "inv_n", n |-> 0, q |-> 0,
              r1 |-> 0, r2 |-> 0, u1 |-> 0, u2 |-> 0, v1 |-> 0, v2 |-> 0]
NoBuild == [pc |-> "idle", n |-> 0, q |-> 0, phi |-> 0, a |-> << >>,
            t |-> 0, j |-> 0, i |-> 0, x |-> 0, y |-> 0,
            writes |-> << >>, oob |-> {}]
NoPower == [pc |-> "idle", x |-> 0, k |-> 0, q |-> 0, y |-> 0]

\* ---------------------------------------------------------------- inverse()
\* the frame after the initializations of r1, u1, v1, r2, u2, v2
InverseEntry(nn, qq, tgt) ==
  [pc |-> "loop", target |-> tgt, n |-> nn, q |-> qq,
   r1 |-> nn, u1 |-> 1, v1 |-> 0, r2 |-> qq, u2 |-> 0, v2 |-> 1]

\* every product of the loop's assertions is representable in int32_t
LoopProductsFit(f) ==
  /\ FitsInt32(f.n, f.u1) /\ FitsInt32(f.q, f.v1)
  /\ FitsInt32(f.n, f.u2) /\ FitsInt32(f.q, f.v2)

\* the three assertions at the head of the loop body, products representable
LoopAssertions(f) ==
  /\ f.r1 = f.n * f.u1 + f.q * f.v1
  /\ f.r2 = f.n * f.u2 + f.q * f.v2
  /\ f.r1 >= 0

\* C's / on int32_t operands truncates toward zero (divisor positive here)
CDiv(x, m) == IF x >= 0 THEN x \div m ELSE -((-x) \div m)

\* one pass through the body of while (r2 > 0), after its assertions
EuclidStep(f) ==
  LET g == CDiv(f.r1, f.r2)
  IN  [f EXCEPT !.r1 = f.r2, !.r2 = f.r1 - g * f.r2,
                !.u1 = f.u2, !.u2 = f.u1 - g * f.u2,
                !.v1 = f.v2, !.v2 = f.v1 - g * f.v2]

\* u1 = u1 % q; if (u1 < 0) u1 += q;
Normalize(u, m) == IF CRem(u, m) < 0 THEN CRem(u, m) + m ELSE CRem(u, m)

\* What an assert(e) does. Compiled out: nothing. Compiled in: it passes or
\* aborts as e says; an e whose evaluation overflows int32_t is undefined
\* behaviour and may do either.
AssertOutcomes(defined, holds) ==
  IF ndebug THEN {TRUE}
  ELSE IF defined THEN {holds}
  ELSE {TRUE, FALSE}

\* while (r2 > 0) { assert...; g = r1/r2; ... }
InverseIter ==
  /\ inv.pc = "loop"
  /\ inv.r2 > 0
  /\ \E ok \in AssertOutcomes(LoopProductsFit(inv),
                               LoopProductsFit(inv) /\ LoopAssertions(inv)) :
        inv' = IF ok THEN EuclidStep(inv) ELSE [inv EXCEPT !.pc = "abort"]
  /\ UNCHANGED << inputVars, pc, localVars, inv_n, inv_psi, ioVars, bld, pw >>

\* loop exit with r1 == 1: u1 is normalized into [0, q)
InverseNormalize ==
  /\ inv.pc = "loop"
  /\ inv.r2 <= 0
  /\ inv.r1 = 1
  /\ inv' = [inv EXCEPT !.pc = "post", !.u1 = Normalize(inv.u1, inv.q)]
  /\ UNCHANGED << inputVars, pc, localVars, inv_n, inv_psi, ioVars, bld, pw >>

\* loop exit with r1 != 1: return false, *inv_n untouched
InverseFalse ==
  /\ inv.pc = "loop"
  /\ inv.r2 <= 0
  /\ inv.r1 # 1
  /\ inv' = [inv EXCEPT !.pc = "ret_false"]
  /\ UNCHANGED << inputVars, pc, localVars, inv_n, inv_psi, ioVars, bld, pw >>

\* assert((n * u1) % q == 1); *inv_n = u1; return true;
InverseStore ==
  /\ inv.pc = "post"
  /\ \E ok \in AssertOutcomes(FitsInt32(inv.n, inv.u1),
                               /\ FitsInt32(inv.n, inv.u1)
                               /\ CRem(inv.n * inv.u1, inv.q) = 1) :
        IF ok
        THEN /\ inv' = [inv EXCEPT !.pc = "ret_true"]
             /\ inv_n' = IF inv.target = "inv_n" THEN << inv.u1 >> ELSE inv_n
             /\ inv_psi' = IF inv.target = "inv_psi" THEN << inv.u1 >> ELSE inv_psi
        ELSE /\ inv' = [inv EXCEPT !.pc = "abort"]
             /\ UNCHANGED << inv_n, inv_psi >>
  /\ UNCHANGED << inputVars, pc, localVars, ioVars, bld, pw >>

InverseNext == InverseIter \/ InverseNormalize \/ InverseFalse \/ InverseStore

\* ------------------------------------------------------ build_shoup_table()
\* the frame after a[0] = 0; i = 1; t = 1; the rest of a is as malloc left it
BuildEntry(nn, qq, ph) ==
  [pc |-> "stage", n |-> nn, q |-> qq, phi |-> ph,
   a |-> [k \in 0 .. nn - 1 |-> IF k = 0 THEN << 0 >> ELSE None],
   t |-> 1, j |-> 0, i |-> 1, x |-> 0, y |-> 0,
   writes |-> [k \in 0 .. nn - 1 |-> 0], oob |-> {}]

\* n/(2*t) replaced by n/t
StageRootNoHalf(f) == power(f.phi, f.n \div f.t, f.q)
\* y = power(phi, n/(2*t), q)
StageRoot(f) == power(f.phi, f.n \div (2 * f.t), f.q)

\* a[i] = x; i++; x = (x * y) % q; j++  (a store past a[n-1] is kept in oob)
WriteStep(f) ==
  [f EXCEPT !.a = IF f.i < f.n THEN [f.a EXCEPT ![f.i] = << f.x >>] ELSE f.a,
            !.writes = IF f.i < f.n
                       THEN [f.writes EXCEPT ![f.i] = f.writes[f.i] + 1]
                       ELSE f.writes,
            !.oob = IF f.i < f.n THEN f.oob ELSE f.oob \cup {f.i},
            !.i = f.i + 1,
            !.x = UMulMod(f.x, f.y, f.q),
            !.j = f.j + 1]

\* for (t=1; t<n; ...) { x = 1; y = power(phi, n/(2*t), q); j = 0; ...
BuildStage ==
  /\ bld.pc = "stage"
  /\ bld.t < bld.n
  /\ bld' = [bld EXCEPT !.pc = "write", !.x = 1, !.y = StageRoot(bld), !.j = 0]
  /\ UNCHANGED << inputVars, pc, localVars, inv_n, inv_psi, ioVars, inv, pw >>

\* the outer loop ends: t >= n
BuildReturn ==
  /\ bld.pc = "stage"
  /\ bld.t >= bld.n
  /\ bld' = [bld EXCEPT !.pc = "done"]
  /\ UNCHANGED << inputVars, pc, localVars, inv_n, inv_psi, ioVars, inv, pw >>

\* What the store a[i] = x does: inside the table it stores; past a[n-1] it
\* is undefined behaviour, and the run either goes on or is killed.
StoreOutcomes(f) == IF f.i < f.n THEN {TRUE} ELSE {TRUE, FALSE}

\* for (j=0; j<t; j++) { assert(i == t+j); assert(i < n); a[i] = x; ... }
BuildWrite ==
  /\ bld.pc = "write"
  /\ bld.j < bld.t
  /\ \E ok \in AssertOutcomes(TRUE, bld.i = bld.t + bld.j /\ bld.i < bld.n),
        alive \in StoreOutcomes(bld) :
        bld' = IF ~ok THEN [bld EXCEPT !.pc = "abort"]
               ELSE IF ~alive
               THEN [bld EXCEPT !.pc = "crash", !.oob = bld.oob \cup {bld.i}]
               ELSE WriteStep(bld)
  /\ UNCHANGED << inputVars, pc, localVars, inv_n, inv_psi, ioVars, inv, pw >>

\* the inner loop ends: j >= t, then t <<= 1
BuildNextStage ==
  /\ bld.pc = "write"
  /\ bld.j >= bld.t
  /\ bld' = [bld EXCEPT !.pc = "stage", !.t = 2 * bld.t]
  /\ UNCHANGED << inputVars, pc, localVars, inv_n, inv_psi, ioVars, inv, pw >>

BuildNext == BuildStage \/ BuildReturn \/ BuildWrite \/ BuildNextStage

\* -------------------------------------------------------------- power_table()
RECURSIVE PowerTableFrom(_, _, _, _)
\* the k values printed from x on: x, then x = (x * b) % q, ...
PowerTableFrom(k, m, x, b) ==
  IF k = 0 THEN << >>
  ELSE << x >> \o PowerTableFrom(k - 1, m, UMulMod(x, b, m), b)

\* what power_table(f, name, n, q, x, b) prints
power_table(name, nn, m, x, b) ==
  [name |-> name, q |-> m, n |-> nn, values |-> PowerTableFrom(nn, m, x, b)]

psi_power_table(nn, m, ps) == power_table("psi_powers_ntt", nn, m, 1, ps)
\* the table seeded with inv_psi instead of 1
inv_psi_power_table_seeded(nn, m, ips) ==
  power_table("inv_psi_powers_ntt", nn, m, ips, ips)
inv_psi_power_table(nn, m, ips) == power_table("inv_psi_powers_ntt", nn, m, 1, ips)
scaled_inv_psi_power_table(nn, m, ips, in) ==
  power_table("scaled_inv_psi_powers_ntt", nn, m, in, ips)

\* what print_table(f, name, a, n, q) prints: a[0], ..., a[n-1]
print_table(name, tab, nn, m) ==
  [name |-> name, q |-> m, n |-> nn, values |-> [k \in 1 .. nn |-> tab[k - 1][1]]]

\* ------------------------------------------------------------------- main()
PsiTool == tool = "psi_power_tables"

\* fprintf(stderr, <diagnostic>); exit(EXIT_FAILURE);
Fail(kind) ==
  /\ pc' = "exit_failure"
  /\ err' = Append(err, kind)

\* if (argc != 4) ...
CheckArgc ==
  /\ pc = "argc"
  /\ checks' = Append(checks, "argc")
  /\ IF argc # 4 THEN Fail("usage") ELSE pc' = "modulus" /\ err' = err
  /\ UNCHANGED << inputVars, localVars, inv_n, inv_psi, out, inv, bld, pw >>

\* if (x >= 0xFFFF)
ModulusTooLargeOffByOne(x) == x > ModulusLimit
ModulusTooLarge(x) == x >= ModulusLimit

\* x = atol(argv[1]); if (x <= 1) ...; if (x >= 0xFFFF) ...; q = x;
CheckModulus ==
  /\ pc = "modulus"
  /\ checks' = Append(checks, "modulus")
  /\ IF args[1] <= 1 THEN Fail("modulus_too_small") /\ q' = q
     ELSE IF ModulusTooLarge(args[1]) THEN Fail("modulus_too_large") /\ q' = q
     ELSE pc' = "size" /\ err' = err /\ q' = args[1]
  /\ UNCHANGED << inputVars, n, psi, phi, i, inv_n, inv_psi, out, inv, bld, pw >>

\* x = atol(argv[2]); if (x <= 1) ...; if (x >= 100000) ...; n = x;
CheckSize ==
  /\ pc = "size"
  /\ checks' = Append(checks, "size")
  /\ IF args[2] <= 1 THEN Fail("size_too_small") /\ n' = n
     ELSE IF args[2] >= SizeLimit THEN Fail("size_too_large") /\ n' = n
     ELSE pc' = "psi" /\ err' = err /\ n' = args[2]
  /\ UNCHANGED << inputVars, q, psi, phi, i, inv_n, inv_psi, out, inv, bld, pw >>

\* x = atol(argv[3]); if (x <= 1 || x >= q) ...; psi = x; phi = (psi*psi) % q;
CheckPsi ==
  /\ pc = "psi"
  /\ checks' = Append(checks, "psi")
  /\ IF args[3] <= 1 \/ args[3] >= q
     THEN Fail("psi_out_of_range") /\ UNCHANGED << psi, phi >>
     ELSE /\ pc' = "root" /\ err' = err
          /\ psi' = args[3]
          /\ phi' = UMulMod(args[3], args[3], q)
  /\ UNCHANGED << inputVars, q, n, i, inv_n, inv_psi, out, inv, bld, pw >>

\* i = power(psi, n, q); if (i != q-1) ...
CheckRoot ==
  /\ pc = "root"
  /\ checks' = Append(checks, "root")
  /\ i' = power(psi, n, q)
  /\ IF i' # q - 1 THEN Fail("not_a_root_of_minus_one")
     ELSE pc' = "assert_phi" /\ err' = err
  /\ UNCHANGED << inputVars, q, n, psi, phi, inv_n, inv_psi, out, inv, bld, pw >>

\* assert(power(phi, n, q) == 1); then the loop's i = 1
AssertPhi ==
  /\ pc = "assert_phi"
  /\ \E ok \in AssertOutcomes(TRUE, power(phi, n, q) = 1) :
        pc' = IF ok THEN "primitive" ELSE "abort"
  /\ i' = 1
  /\ UNCHANGED << inputVars, q, n, psi, phi, inv_n, inv_psi, ioVars, inv, bld, pw >>

\* the test of one pass of for (i=1; i<n; i++): power(psi, i, q) == 1
PrimitiveTest(ps, k, m) == power(ps, k, m) = 1

\* the bound of for (i=1; i<n; i++)
PrimitiveBoundShort(nn) == nn - 1
PrimitiveBound(nn) == nn

\* for (i=1; i<n; i++) { if (power(psi, i, q) == 1) ... }
PrimitiveIter ==
  /\ pc = "primitive"
  /\ i < PrimitiveBound(n)
  /\ checks' = IF i = 1 THEN Append(checks, "primitive") ELSE checks
  /\ IF PrimitiveTest(psi, i, q)
     THEN Fail("not_primitive") /\ i' = i
     ELSE pc' = pc /\ err' = err /\ i' = i + 1
  /\ UNCHANGED << inputVars, q, n, psi, phi, inv_n, inv_psi, out, inv, bld, pw >>

\* the loop ends: i >= n
PrimitiveDone ==
  /\ pc = "primitive"
  /\ i >= PrimitiveBound(n)
  /\ pc' = "inverse_n"
  /\ UNCHANGED << inputVars, localVars, inv_n, inv_psi, ioVars, inv, bld, pw >>

\* the call inverse(n, q, &inv_n)
CallInverseN ==
  /\ pc = "inverse_n"
  /\ checks' = Append(checks, "inverse_n")
  /\ inv' = InverseEntry(n, q, "inv_n")
  /\ pc' = "in_inverse_n"
  /\ UNCHANGED << inputVars, localVars, inv_n, inv_psi, out, err, bld, pw >>

\* if (!inverse(n, q, &inv_n)) ...
ReturnInverseN ==
  /\ pc = "in_inverse_n"
  /\ inv.pc \in {"ret_true", "ret_false"}
  /\ IF inv.pc = "ret_false" THEN Fail("n_not_invertible")
     ELSE /\ pc' = IF PsiTool THEN "inverse_psi" ELSE "parameters"
          /\ err' = err
  /\ UNCHANGED << inputVars, localVars, inv_n, inv_psi, checks, out, inv, bld, pw >>

\* the call inverse(psi, q, &inv_psi)   (psi_power_tables.c only)
CallInversePsi ==
  /\ pc = "inverse_psi"
  /\ checks' = Append(checks, "inverse_psi")
  /\ inv' = InverseEntry(psi, q, "inv_psi")
  /\ pc' = "in_inverse_psi"
  /\ UNCHANGED << inputVars, localVars, inv_n, inv_psi, out, err, bld, pw >>

\* if (!inverse(psi, q, &inv_psi)) ...
ReturnInversePsi ==
  /\ pc = "in_inverse_psi"
  /\ inv.pc \in {"ret_true", "ret_false"}
  /\ IF inv.pc = "ret_false" THEN Fail("psi_not_invertible")
     ELSE pc' = "parameters" /\ err' = err
  /\ UNCHANGED << inputVars, localVars, inv_n, inv_psi, checks, out, inv, bld, pw >>

\* fprintf(stderr, "Parameters\n"); ...
PrintParameters ==
  /\ pc = "parameters"
  /\ err' = Append(err, "parameters")
  /\ pc' = IF PsiTool THEN "psi_powers" ELSE "malloc"
  /\ UNCHANGED << inputVars, localVars, inv_n, inv_psi, checks, out, inv, bld, pw >>

\* psi_power_table(stdout, n, q, psi);
EmitPsiPowers ==
  /\ pc = "psi_powers"
  /\ out' = Append(out, psi_power_table(n, q, psi))
  /\ pc' = "inv_psi_powers"
  /\ UNCHANGED << inputVars, localVars, inv_n, inv_psi, checks, err, inv, bld, pw >>

\* inv_psi_power_table(stdout, n, q, inv_psi);
EmitInvPsiPowers ==
  /\ pc = "inv_psi_powers"
  /\ out' = Append(out, inv_psi_power_table(n, q, inv_psi[1]))
  /\ pc' = "scaled_inv_psi_powers"
  /\ UNCHANGED << inputVars, localVars, inv_n, inv_psi, checks, err, inv, bld, pw >>

\* scaled_inv_psi_power_table(stdout, n, q, inv_psi, inv_n); return 0;
EmitScaledInvPsiPowers ==
  /\ pc = "scaled_inv_psi_powers"
  /\ out' = Append(out, scaled_inv_psi_power_table(n, q, inv_psi[1], inv_n[1]))
  /\ pc' = "done"
  /\ UNCHANGED << inputVars, localVars, inv_n, inv_psi, checks, err, inv, bld, pw >>

\* table = malloc(n * sizeof(uint32_t)); if (table == NULL) ...;
\* then the call build_shoup_table(table, n, q, phi)   (shoup_tables.c only)
Malloc ==
  /\ pc = "malloc"
  /\ checks' = Append(checks, "malloc")
  /\ \E allocated \in BOOLEAN :
        IF allocated
        THEN /\ bld' = BuildEntry(n, q, phi)
             /\ pc' = "build"
             /\ err' = err
        ELSE /\ Fail("allocation_failed")
             /\ bld' = bld
  /\ UNCHANGED << inputVars, localVars, inv_n, inv_psi, out, inv, pw >>

\* print_table(stdout, "shoup_ntt", table, n, q); free(table); return 0;
PrintTable ==
  /\ pc = "build"
  /\ bld.pc = "done"
  /\ out' = Append(out, print_table("shoup_ntt", bld.a, n, q))
  /\ pc' = "done"
  /\ UNCHANGED << inputVars, localVars, inv_n, inv_psi, checks, err, inv, bld, pw >>

\* ------------------------------------------------------------ the programs
\* argument values tried exhaustively, and runs of particular parameters
ArgTriples ==
  { << a, b, c >> : a \in 0 .. MaxQ, b \in 0 .. MaxN, c \in 0 .. MaxQ }
EdgeTriples ==
  { << 0 - 5, 8, 3 >>, << 70000, 8, 3 >>, << ModulusLimit, 8, 3 >>,
    << ModulusLimit - 1, 8, 3 >>, << 17, SizeLimit, 3 >>, << 17, 8, 0 - 3 >> }
ParameterTriples ==
  { << 7681, 8, 1925 >>, << 7681, 4, 1925 >>, << 7681, 8, 2 >>,
    << 64921, 4, 39046 >>, << 65534, 3, 61003 >> }

MainInit ==
  /\ tool \in Tools
  /\ ndebug \in BOOLEAN
  /\ \/ argc = 4 /\ args \in ArgTriples \cup EdgeTriples \cup ParameterTriples
     \/ argc \in {1, 3, 5} /\ args = << 0, 0, 0 >>
  /\ pc = "argc"
  /\ q = 0 /\ n = 0 /\ psi = 0 /\ phi = 0 /\ i = 0
  /\ inv_n = None /\ inv_psi = None
  /\ checks = << >> /\ out = << >> /\ err = << >>
  /\ inv = NoInverse /\ bld = NoBuild /\ pw = NoPower

Init == MainInit

Next ==
  \/ CheckArgc \/ CheckModulus \/ CheckSize \/ CheckPsi
  \/ CheckRoot \/ AssertPhi \/ PrimitiveIter \/ PrimitiveDone
  \/ CallInverseN \/ ReturnInverseN \/ CallInversePsi \/ ReturnInversePsi
  \/ InverseIter \/ InverseNormalize \/ InverseFalse \/ InverseStore
  \/ PrintParameters
  \/ EmitPsiPowers \/ EmitInvPsiPowers \/ EmitScaledInvPsiPowers
  \/ Malloc \/ BuildStage \/ BuildReturn \/ BuildWrite \/ BuildNextStage
  \/ PrintTable

Spec == Init /\ [][Next]_vars

\* ------------------------------------------------- the functions on their own
\* main is not running
NoMain ==
  /\ tool = "psi_power_tables" /\ argc = 4 /\ args = << 0, 0, 0 >>
  /\ pc = "idle"
  /\ q = 0 /\ n = 0 /\ psi = 0 /\ phi = 0 /\ i = 0
  /\ inv_n = None /\ inv_psi = None
  /\ checks = << >> /\ out = << >> /\ err = << >>

\* inverse(n, q, &inv_n) for 1 <= n < q: every pair up to MaxQ, and pairs
\* near the top of the range of q
InversePairs ==
  { << a, b >> \in (1 .. MaxQ) \X (2 .. MaxQ) : a < b }
    \cup { << 46340, 46341 >>, << 46341, 46342 >>, << 39046, 64921 >>,
           << 56719, 64921 >>, << 65533, ModulusLimit - 1 >> }

InverseInit ==
  /\ NoMain
  /\ ndebug \in BOOLEAN
  /\ \E p \in InversePairs : inv = InverseEntry(p[1], p[2], "inv_n")
  /\ bld = NoBuild /\ pw = NoPower

SpecInverse == InverseInit /\ [][InverseNext]_vars

\* build_shoup_table(a, n, q, phi) for n a power of two and phi in [0, q)
BuildInit ==
  /\ NoMain
  /\ ndebug \in BOOLEAN
  /\ \E e \in 1 .. MaxLog, m \in 2 .. MaxQ :
       \E ph \in 0 .. m - 1 : bld = BuildEntry(2^e, m, ph)
  /\ inv = NoInverse /\ pw = NoPower

SpecShoup == BuildInit /\ [][BuildNext]_vars

\* power(x, k, q): small operands, and x at and above 2^16
PowerXs == (0 .. MaxQ) \cup {Half - 1, Half, Half + 1, Half + 2, 3 * Half, Int32Max}
PowerQs == (1 .. MaxQ) \cup {7681, ModulusLimit - 1, ModulusLimit}

PowerInit ==
  /\ NoMain
  /\ ndebug \in BOOLEAN
  /\ \E xx \in PowerXs, kk \in 0 .. MaxK, m \in PowerQs :
       pw = [pc |-> "call", x |-> xx, k |-> kk, q |-> m, y |-> 0]
  /\ inv = NoInverse /\ bld = NoBuild

\* y = power(x, k, q)
PowerCall ==
  /\ pw.pc = "call"
  /\ pw' = [pw EXCEPT !.pc = "returned", !.y = power(pw.x, pw.k, pw.q)]
  /\ UNCHANGED << inputVars, pc, localVars, inv_n, inv_psi, ioVars, inv, bld >>

SpecPower == PowerInit /\ [][PowerCall]_vars

\* ===================================================================== claims
Last(s) == s[Len(s)]
IsPowerOfTwo(k) == \E e \in 0 .. 17 : k = 2^e
Returned(f) == f.pc \in {"ret_true", "ret_false", "abort"}

\* ---- C1
\* psi^n = -1 (mod q), by n successive multiplications
RootOfMinusOne == ModExp(psi, n, q) = q - 1
\* phi = psi^2 mod q has multiplicative order exactly n
PhiHasOrderN ==
  LET ph == ModMul(psi, psi, q)
  IN  /\ ModExp(ph, n, q) = 1
      /\ \A k \in 1 .. n - 1 : ModExp(ph, k, q) # 1
RootChecksPassed == pc = "inverse_n"
RootChecksFailed == pc = "exit_failure" /\ Last(checks) \in {"root", "primitive"}

\* C1: main's two root checks (psi^n mod q == q-1, then psi^i mod q != 1 for
\* every i in [1, n)) both pass if and only if psi^n = -1 (mod q) and
\* phi = psi^2 mod q has multiplicative order exactly n.
C1_ValidatorSoundAndComplete ==
  /\ RootChecksPassed => RootOfMinusOne /\ PhiHasOrderN
  /\ RootChecksFailed => ~(RootOfMinusOne /\ PhiHasOrderN)

\* the loop has run to its end on a size that is not a power of two
C1_Witness == RootChecksPassed /\ n = 6 /\ i = n

\* ---- C2
StageSizes(nn) == { tt \in 1 .. nn - 1 : IsPowerOfTwo(tt) }

\* C2: for n = 2^k, build_shoup_table leaves a[0] = 0, writes each index of
\* 1 .. n-1 exactly once and no other index, has i == t + j and i < n at every
\* write, and ends with a[t + j] = (phi^(n/(2t)))^j mod q for every stage
\* t = 1, 2, 4, ..., n/2 and every 0 <= j < t.
C2_LevelTableLayout ==
  bld.pc # "idle" =>
    /\ bld.a[0] = << 0 >>
    /\ bld.oob = {}
    /\ bld.pc # "abort"
    /\ bld.writes[0] = 0
    /\ \A k \in 1 .. bld.n - 1 : bld.writes[k] <= 1
    /\ (bld.pc = "write" /\ bld.j < bld.t) =>
          (bld.i = bld.t + bld.j /\ bld.i < bld.n)
    /\ bld.pc = "done" =>
          /\ \A k \in 1 .. bld.n - 1 : bld.writes[k] = 1
          /\ \A tt \in StageSizes(bld.n) : \A jj \in 0 .. tt - 1 :
                bld.a[tt + jj] =
                  << ModExp(ModExp(bld.phi, bld.n \div (2 * tt), bld.q), jj, bld.q) >>

\* a finished table of three stages whose last entry is a proper power
C2_Witness ==
  /\ bld.pc = "done" /\ bld.n = 8 /\ bld.i = 8
  /\ bld.a[7] \notin {<< 0 >>, << 1 >>}

\* ---- C3
\* C3: every run of shoup_tables.c that reaches build_shoup_table has n a
\* power of two, so i == t + j and i < n hold at every write, no assertion
\* fails and no store lands outside the n-element table.
C3_PowerOfTwoEnforced ==
  /\ pc = "build" => IsPowerOfTwo(n)
  /\ (bld.pc = "write" /\ bld.j < bld.t) =>
        (bld.i = bld.t + bld.j /\ bld.i < bld.n)
  /\ bld.pc # "abort"
  /\ bld.oob = {}

\* ---- C4
\* C4: inverse(n, q) for 1 <= n < q ends by returning true with the v in
\* [0, q) such that (n * v) mod q == 1 stored when gcd(n, q) = 1, and by
\* returning false with *inv_n not written when gcd(n, q) != 1.
C4_InverseCorrect ==
  Returned(inv) =>
    IF Gcd(inv.n, inv.q) = 1
    THEN /\ inv.pc = "ret_true"
         /\ Len(inv_n) = 1
         /\ inv_n[1] \in 0 .. inv.q - 1
         /\ ModMul(inv.n, inv_n[1], inv.q) = 1
    ELSE /\ inv.pc = "ret_false"
         /\ inv_n = None

\* ---- C5
Boundary == << 7681, 8, 1925 >>

\* C5 as stated: with q = 7681, n = 8, psi = 1925 both programs pass every
\* check (power(1925, 8, 7681) == 7680) and print tables of length 8.
C5_BoundaryAccepted ==
  (argc = 4 /\ args = Boundary) =>
    /\ pc = "assert_phi" => i = 7680
    /\ pc = "exit_failure" => Last(checks) = "malloc"
    /\ pc = "done" => \A k \in 1 .. Len(out) : Len(out[k].values) = 8

\* C5: with q = 7681, n = 8, psi = 1925 both programs stop at the root
\* check, because power(1925, 8, 7681) == 1 and not 7680: the diagnostic is
\* "not an n-th root of -1", the exit is a failure and no table is printed.
C5_BoundaryRejected ==
  (argc = 4 /\ args = Boundary) =>
    /\ out = << >>
    /\ pc \in {"argc", "modulus", "size", "psi", "root", "exit_failure"}
    /\ pc = "exit_failure" =>
          /\ i = 1
          /\ Last(checks) = "root"
          /\ err = << "not_a_root_of_minus_one" >>

\* the run of the boundary parameters has ended
C5_Witness == argc = 4 /\ args = Boundary /\ pc = "exit_failure" /\ q = 7681

\* ---- C6
\* C6: once psi_power_tables.c has printed psi_powers and inv_psi_powers,
\* both have n entries, both start with 1, and entry by entry their product
\* is 1 modulo q.
C6_RoundTrip ==
  (PsiTool /\ Len(out) >= 2) =>
    LET f == out[1].values
        b == out[2].values
    IN  /\ Len(f) = n /\ Len(b) = n
        /\ f[1] = 1 /\ b[1] = 1
        /\ \A k \in 1 .. n : ModMul(f[k], b[k], q) = 1

\* all three tables of a run of size 8 are out
C6_Witness == PsiTool /\ pc = "done" /\ Len(out) = 3 /\ n = 8

\* ---- C7
CheckOrder ==
  << "argc", "modulus", "size", "psi", "root", "primitive", "inverse_n" >>
    \o (IF PsiTool THEN << "inverse_psi" >> ELSE << "malloc" >>)
IsPrefix(s, w) == Len(s) <= Len(w) /\ \A k \in 1 .. Len(s) : s[k] = w[k]
\* what each check requires, stated on the arguments alone
Passes(c) ==
  CASE c = "argc" -> argc = 4
    [] c = "modulus" -> args[1] > 1 /\ args[1] < ModulusLimit
    [] c = "size" -> args[2] > 1 /\ args[2] < SizeLimit
    [] c = "psi" -> args[3] > 1 /\ args[3] < args[1]
    [] c = "root" -> ModExp(args[3], args[2], args[1]) = args[1] - 1
    [] c = "primitive" ->
         \A k \in 1 .. args[2] - 1 : ModExp(args[3], k, args[1]) # 1
    [] c = "inverse_n" -> Gcd(args[2], args[1]) = 1
    [] c = "inverse_psi" -> Gcd(args[3], args[1]) = 1
    [] c = "malloc" -> \A k \in 1 .. Len(err) : err[k] # "allocation_failed"
Evaluating == pc \in {"primitive", "in_inverse_n", "in_inverse_psi"}

\* C7: in both programs the checks run in the order argument count, modulus,
\* size, psi, psi^n == q-1, primitivity, n invertible, then psi invertible
\* (psi_power_tables.c) or the allocation (shoup_tables.c); every check before
\* the last one evaluated has passed; a failing check is the last one
\* evaluated and ends the run in the failure exit with nothing on standard
\* output; standard output is written only after every check has passed.
C7_FailFast ==
  /\ IsPrefix(checks, CheckOrder)
  /\ \A k \in 1 .. Len(checks) - 1 : Passes(checks[k])
  /\ pc = "exit_failure" =>
        (out = << >> /\ Len(checks) >= 1 /\ ~Passes(Last(checks)))
  /\ (Len(checks) >= 1 /\ ~Passes(Last(checks))) =>
        (out = << >> /\ (pc = "exit_failure" \/ Evaluating))
  /\ out # << >> =>
        /\ checks = CheckOrder
        /\ \A k \in 1 .. Len(checks) : Passes(checks[k])
        /\ pc # "exit_failure"

\* the run ended at the sixth check or later, five checks having passed
C7_Witness ==
  /\ pc = "exit_failure" /\ out = << >>
  /\ Last(checks) \in {"primitive", "inverse_n", "malloc"}

\* ---- C8
\* C8: power(x, k, q) returns x^k mod q for every x, reduced below q or not,
\* and 1 when k = 0.
C8_PowerOfAnyX ==
  pw.pc = "returned" =>
    pw.y = IF pw.k = 0 THEN 1 ELSE ModExp(pw.x % pw.q, pw.k, pw.q)

\* ---- C9
\* C9: in every call of inverse made by main, each product inside an
\* assertion (n*u1, q*v1, n*u2, q*v2 in the loop, n*u1 after u1 is
\* normalized) lies in [-2^31, 2^31), and the assertions hold.
C9_AssertionProductsFit ==
  /\ (inv.pc = "loop" /\ inv.r2 > 0) =>
        (LoopProductsFit(inv) /\ LoopAssertions(inv))
  /\ inv.pc = "post" =>
        /\ FitsInt32(inv.n, inv.u1)
        /\ CRem(inv.n * inv.u1, inv.q) = 1

\* ---- C10
\* C10: once psi^n mod q == q-1 and the later checks have passed,
\* inverse(psi, q) always returns true, so psi_power_tables.c goes on to print
\* its tables whenever shoup_tables.c gets to its allocation.
C10_PsiInverseReturnsTrue ==
  (PsiTool /\ pc = "in_inverse_psi" /\ Returned(inv)) => inv.pc = "ret_true"

====
